---- MODULE Spec2Model ----
(***************************************************************************)
(* The tool-dispatch and query-composition layer of the PostgreSQL lookup  *)
(* server (src/mcp-server/server.py).  Texts (SQL statements, responses)   *)
(* are TLA+ strings built by the same concatenations as the code; the      *)
(* database is a small relational store whose statements are interpreted   *)
(* by Execute.  Amounts are whole numbers (cents are not modelled).        *)
(***************************************************************************)
EXTENDS Integers, Sequences, FiniteSets, TLC

VARIABLES
    db,          \* the backing store: suppliers, invoices, purchase_orders
    pc,          \* "idle" | "summary_invoices" | "summary_pos" | "done"
    name,        \* tool name of the call in progress / last served
    arguments,   \* its argument map, [none |-> BOOLEAN, map |-> record]
    invoked,     \* the handlers handle_call_tool awaited, in order
    stmts,       \* the call's query_db calls: [sql, params, executed, error, rows]
    conns,       \* connections opened by the call (get_db_connection)
    locals,      \* get_vendor_summary's vendor_results / invoice_stats
    handler_result, \* how the awaited handler ended: its return or its raise
    outcome,     \* how handle_call_tool ended: [kind |-> "return" | "raise", value]
    prev         \* history: the previous call, see Remember

vars == <<db, pc, name, arguments, invoked, stmts, conns, locals, handler_result,
          outcome, prev>>

----------------------------------------------------------------------------
(* Bounds of the model. *)

\* Longest invoice_numbers / po_numbers list a caller passes.
MaxLen == 2

----------------------------------------------------------------------------
(* Python values. *)

\* SQL NULL / Python None in a nullable column.
Null == [null |-> TRUE]
Some(v) == [null |-> FALSE, v |-> v]

\* bool(x) of an int, a str, a list (server.py:182, 190, 228, 309, 318, 362).
TruthyInt(x) == x # 0
TruthyStr(s) == s # ""
TruthyList(l) == Len(l) > 0

\* args.get(key): the key is present in the map.
Has(args, key) == key \in DOMAIN args

\* str.startswith / str.endswith
StartsWith(s, p) == Len(s) >= Len(p) /\ SubSeq(s, 1, Len(p)) = p
EndsWith(s, p) == Len(s) >= Len(p) /\ SubSeq(s, Len(s) - Len(p) + 1, Len(s)) = p

\* First index at or after i where sub occurs in s, 0 when none (str.find + 1).
Find(s, sub, i) ==
    LET hits == { j \in i..(Len(s) - Len(sub) + 1) : SubSeq(s, j, j + Len(sub) - 1) = sub }
    IN  IF hits = {} THEN 0 ELSE CHOOSE j \in hits : \A k \in hits : j <= k

\* Number of non-overlapping occurrences of sub in s (str.count).
RECURSIVE CountFrom(_, _, _)
CountFrom(s, sub, i) ==
    LET j == Find(s, sub, i)
    IN  IF j = 0 THEN 0 ELSE 1 + CountFrom(s, sub, j + Len(sub))
Count(s, sub) == CountFrom(s, sub, 1)

\* sep.join(parts)
RECURSIVE Join(_, _)
Join(sep, parts) ==
    IF Len(parts) = 0 THEN ""
    ELSE IF Len(parts) = 1 THEN parts[1]
    ELSE parts[1] \o sep \o Join(sep, Tail(parts))

\* [x] * n
Repeat(x, n) == [i \in 1..n |-> x]

\* "-" * 50, "=" * 50
RECURSIVE StrTimes(_, _)
StrTimes(c, n) == IF n = 0 THEN "" ELSE c \o StrTimes(c, n - 1)

\* f"{total:.2f}" of a whole number; str(float(a) - float(b)) of whole numbers.
Fmt2f(n) == ToString(n) \o ".00"
FloatStr(n) == ToString(n) \o ".0"

----------------------------------------------------------------------------
(* The statements, character for character. *)

\* server.py:183-188
lookup_vendor_query_by_id ==
    "\n            SELECT supplier_id, name, contact_email, phone, \n                   billing_address, created_at, updated_at\n            FROM suppliers\n            WHERE supplier_id = %s\n        "

\* server.py:191-196
lookup_vendor_query_by_name ==
    "\n            SELECT supplier_id, name, contact_email, phone, \n                   billing_address, created_at, updated_at\n            FROM suppliers\n            WHERE name ILIKE %s\n        "

\* server.py:200-205
lookup_vendor_query_all ==
    "\n            SELECT supplier_id, name, contact_email, phone, \n                   billing_address, created_at, updated_at\n            FROM suppliers\n            ORDER BY name\n        "

\* server.py:231-241
lookup_invoice_base_query ==
    "\n        SELECT i.invoice_id, i.invoice_number, i.invoice_date, i.due_date,\n               i.currency_code, i.status, i.subtotal_amount, i.tax_amount, \n               i.total_amount, s.name as supplier_name, s.supplier_id,\n               po.po_number\n        FROM invoices i\n        JOIN suppliers s ON i.supplier_id = s.supplier_id\n        LEFT JOIN purchase_orders po ON i.po_id = po.po_id\n        WHERE i.invoice_number IN ({placeholders})\n        ORDER BY i.invoice_date DESC\n    "

\* server.py:272-279
lookup_purchase_order_base_query ==
    "\n        SELECT po.po_id, po.po_number, po.order_date, po.currency_code,\n               po.status, po.total_amount, s.name as supplier_name, s.supplier_id\n        FROM purchase_orders po\n        JOIN suppliers s ON po.supplier_id = s.supplier_id\n        WHERE po.po_number IN ({placeholders})\n        ORDER BY po.order_date DESC\n    "

\* server.py:324-333: the f-string of query_amounts around {where_clause}.
query_amounts_head ==
    "\n        SELECT i.invoice_number, i.invoice_date, i.total_amount, \n               i.currency_code, i.status, s.name as supplier_name,\n               ib.amount_paid, ib.balance_due\n        FROM invoices i\n        JOIN suppliers s ON i.supplier_id = s.supplier_id\n        LEFT JOIN invoice_balances ib ON i.invoice_id = ib.invoice_id\n        WHERE "

query_amounts_tail ==
    "\n        ORDER BY i.invoice_date DESC\n    "

query_amounts_query(where_clause) == query_amounts_head \o where_clause \o query_amounts_tail

\* server.py:366-370
vendor_query ==
    "\n        SELECT supplier_id, name, contact_email, phone\n        FROM suppliers\n        WHERE supplier_id = %s\n    "

\* server.py:379-388
invoice_query ==
    "\n        SELECT \n            COUNT(*) as invoice_count,\n            SUM(total_amount) as total_invoiced,\n            SUM(CASE WHEN status = 'PAID' THEN total_amount ELSE 0 END) as total_paid,\n            currency_code\n        FROM invoices\n        WHERE supplier_id = %s\n        GROUP BY currency_code\n    "

\* server.py:392-400
po_query ==
    "\n        SELECT \n            COUNT(*) as po_count,\n            SUM(total_amount) as total_po_amount,\n            currency_code\n        FROM purchase_orders\n        WHERE supplier_id = %s\n        GROUP BY currency_code\n    "

----------------------------------------------------------------------------
(* The backing store.  Rows are drawn from a fixed universe; a store is a  *)
(* subset of it that respects the foreign keys.                            *)

DateStr(d) == "2024-01-0" \o ToString(d)

SupplierRows == {
    [supplier_id |-> 1, name |-> "Acme Corp", contact_email |-> "ap@acme.test",
     phone |-> "555-0101", billing_address |-> "1 Main St",
     created_at |-> 1, updated_at |-> 1],
    [supplier_id |-> 2, name |-> "Bolt Co", contact_email |-> "ar@bolt.test",
     phone |-> "555-0102", billing_address |-> "2 Side St",
     created_at |-> 1, updated_at |-> 2] }

PurchaseOrderRows == {
    [po_id |-> 1, po_number |-> "PO-001", order_date |-> 1, currency_code |-> "USD",
     status |-> "OPEN", total_amount |-> 100, supplier_id |-> 1],
    [po_id |-> 2, po_number |-> "PO-002", order_date |-> 1, currency_code |-> "EUR",
     status |-> "OPEN", total_amount |-> 40, supplier_id |-> 1] }

\* balance: the invoice's row of invoice_balances, Null when it has none.
InvoiceRows == {
    [invoice_id |-> 1, invoice_number |-> "INV-001", invoice_date |-> 3, due_date |-> 5,
     currency_code |-> "USD", status |-> "PAID", subtotal_amount |-> 90,
     tax_amount |-> 10, total_amount |-> 100, supplier_id |-> 1, po_id |-> Some(1),
     balance |-> Some([amount_paid |-> 100, balance_due |-> 0])],
    [invoice_id |-> 2, invoice_number |-> "INV-002", invoice_date |-> 2, due_date |-> 4,
     currency_code |-> "EUR", status |-> "APPROVED", subtotal_amount |-> 50,
     tax_amount |-> 0, total_amount |-> 50, supplier_id |-> 1, po_id |-> Null,
     balance |-> Null],
    [invoice_id |-> 3, invoice_number |-> "INV-003", invoice_date |-> 2, due_date |-> 4,
     currency_code |-> "USD", status |-> "APPROVED", subtotal_amount |-> 25,
     tax_amount |-> 5, total_amount |-> 30, supplier_id |-> 1, po_id |-> Null,
     balance |-> Some([amount_paid |-> 10, balance_due |-> 20])],
    [invoice_id |-> 4, invoice_number |-> "INV-004", invoice_date |-> 1, due_date |-> 3,
     currency_code |-> "EUR", status |-> "DRAFT", subtotal_amount |-> 70,
     tax_amount |-> 0, total_amount |-> 70, supplier_id |-> 2, po_id |-> Null,
     balance |-> Some([amount_paid |-> 0, balance_due |-> 70])] }

\* Every invoice and purchase order references an existing vendor; an
\* invoice's po_id, when set, references an existing purchase order.
ForeignKeysHold(s) ==
    /\ \A i \in s.invoices :
          /\ \E v \in s.suppliers : v.supplier_id = i.supplier_id
          /\ ~i.po_id.null => \E p \in s.purchase_orders : p.po_id = i.po_id.v
    /\ \A p \in s.purchase_orders :
          \E v \in s.suppliers : v.supplier_id = p.supplier_id

Stores ==
    { s \in [suppliers : SUBSET SupplierRows, invoices : SUBSET InvoiceRows,
             purchase_orders : SUBSET PurchaseOrderRows] : ForeignKeysHold(s) }

----------------------------------------------------------------------------
(* PostgreSQL's reading of the statements. *)

LowerTable == <<"a","b","c","d","e","f","g","h","i","j","k","l","m",
                "n","o","p","q","r","s","t","u","v","w","x","y","z">>
UpperTable == <<"A","B","C","D","E","F","G","H","I","J","K","L","M",
                "N","O","P","Q","R","S","T","U","V","W","X","Y","Z">>

LowerChar(c) ==
    IF \E k \in 1..26 : UpperTable[k] = c
    THEN LowerTable[CHOOSE k \in 1..26 : UpperTable[k] = c]
    ELSE c

RECURSIVE Lower(_)
Lower(s) == IF s = "" THEN "" ELSE LowerChar(SubSeq(s, 1, 1)) \o Lower(SubSeq(s, 2, Len(s)))

\* Rank of a character in the collation: letters by alphabet, the rest first.
CharRank(c) ==
    IF \E k \in 1..26 : LowerTable[k] = LowerChar(c)
    THEN CHOOSE k \in 1..26 : LowerTable[k] = LowerChar(c)
    ELSE 0

\* a sorts strictly before b (ORDER BY name).
RECURSIVE StrLess(_, _)
StrLess(a, b) ==
    IF b = "" THEN FALSE
    ELSE IF a = "" THEN TRUE
    ELSE LET x == CharRank(SubSeq(a, 1, 1))
             y == CharRank(SubSeq(b, 1, 1))
         IN  IF x # y THEN x < y
             ELSE StrLess(SubSeq(a, 2, Len(a)), SubSeq(b, 2, Len(b)))

\* value ILIKE pattern, for the patterns the server binds: %<text>%.
ILike(value, pattern) ==
    /\ Len(pattern) >= 2
    /\ SubSeq(pattern, 1, 1) = "%"
    /\ SubSeq(pattern, Len(pattern), Len(pattern)) = "%"
    /\ Find(Lower(value), Lower(SubSeq(pattern, 2, Len(pattern) - 1)), 1) # 0

\* All enumerations of a finite set of rows.
Perms(S) ==
    { s \in [1..Cardinality(S) -> S] : \A a \in S : \E i \in 1..Cardinality(S) : s[i] = a }

\* The row orders a statement can return: any order (no ORDER BY), or any
\* order in which no row comes after a row it sorts strictly before.
AnyOrder(S) == Perms(S)
OrderedByName(S) ==
    { s \in Perms(S) : \A i, j \in 1..Len(s) : i < j => ~StrLess(s[j].name, s[i].name) }
OrderedDesc(S, column) ==
    { s \in Perms(S) : \A i, j \in 1..Len(s) : i < j => ~(s[j][column] > s[i][column]) }

\* The number of %s markers of a comma-separated placeholder list, -1 when
\* the text is not such a list (a syntax error).
RECURSIVE ParsePlaceholders(_)
ParsePlaceholders(m) ==
    IF m = "%s" THEN 1
    ELSE IF StartsWith(m, "%s,")
         THEN LET r == ParsePlaceholders(SubSeq(m, 4, Len(m)))
              IN  IF r < 0 THEN -1 ELSE r + 1
         ELSE -1

Marker == "{placeholders}"
BeforeMarker(base) == SubSeq(base, 1, Find(base, Marker, 1) - 1)
AfterMarker(base) == SubSeq(base, Find(base, Marker, 1) + Len(Marker), Len(base))

\* The text between the fixed head and tail of a statement, "?" when the
\* statement has another head or tail.
Middle(query, head, tail) ==
    IF /\ Len(query) >= Len(head) + Len(tail)
       /\ StartsWith(query, head)
       /\ EndsWith(query, tail)
    THEN SubSeq(query, Len(head) + 1, Len(query) - Len(tail))
    ELSE "?"

\* The predicates of a WHERE clause, in order; <<"?">> when it is not a
\* conjunction of predicates over the columns the statements filter on.
WherePredicates ==
    {"1=1", "i.supplier_id = %s", "i.total_amount >= %s", "i.total_amount <= %s",
     "i.status = %s"}

RECURSIVE ParseWhere(_)
ParseWhere(w) ==
    IF w \in WherePredicates THEN <<w>>
    ELSE IF \E p \in WherePredicates : StartsWith(w, p \o " AND ")
         THEN LET p == CHOOSE q \in WherePredicates : StartsWith(w, q \o " AND ")
                  r == ParseWhere(SubSeq(w, Len(p) + 6, Len(w)))
              IN  IF r = <<"?">> THEN r ELSE <<p>> \o r
         ELSE <<"?">>

\* The predicates that carry a %s marker, and the parameter bound to the k-th
\* predicate (markers are bound left to right).
Markers(preds) == { k \in 1..Len(preds) : preds[k] # "1=1" }
ParamIndex(preds, k) == Cardinality({ j \in Markers(preds) : j <= k })

\* Row i satisfies predicate p bound to value x.
Satisfies(i, p, x) ==
    CASE p = "i.supplier_id = %s" -> i.supplier_id = x
      [] p = "i.total_amount >= %s" -> i.total_amount >= x
      [] p = "i.total_amount <= %s" -> i.total_amount <= x
      [] p = "i.status = %s" -> i.status = x

SatisfiesAll(i, preds, params) ==
    \A k \in Markers(preds) : Satisfies(i, preds[k], params[ParamIndex(preds, k)])

\* SUM over a set of <<row key, amount>> pairs.
RECURSIVE SumPairs(_)
SumPairs(S) ==
    IF S = {} THEN 0
    ELSE LET r == CHOOSE x \in S : TRUE
         IN  r[2] + SumPairs(S \ {r})

\* s.name of the vendor a row references (JOIN suppliers s ON ...).
SupplierOf(store, row) == CHOOSE v \in store.suppliers : v.supplier_id = row.supplier_id

\* po.po_number of the purchase order an invoice references (LEFT JOIN).
PoNumberOf(store, inv) ==
    IF inv.po_id.null \/ ~\E p \in store.purchase_orders : p.po_id = inv.po_id.v
    THEN Null
    ELSE Some((CHOOSE p \in store.purchase_orders : p.po_id = inv.po_id.v).po_number)

Joined(store, rows) == { r \in rows : \E v \in store.suppliers : v.supplier_id = r.supplier_id }

VendorColumns(v) ==
    [supplier_id |-> v.supplier_id, name |-> v.name, contact_email |-> v.contact_email,
     phone |-> v.phone, billing_address |-> v.billing_address,
     created_at |-> v.created_at, updated_at |-> v.updated_at]

VendorIdentityColumns(v) ==
    [supplier_id |-> v.supplier_id, name |-> v.name, contact_email |-> v.contact_email,
     phone |-> v.phone]

InvoiceColumns(store, i) ==
    [invoice_id |-> i.invoice_id, invoice_number |-> i.invoice_number,
     invoice_date |-> i.invoice_date, due_date |-> i.due_date,
     currency_code |-> i.currency_code, status |-> i.status,
     subtotal_amount |-> i.subtotal_amount, tax_amount |-> i.tax_amount,
     total_amount |-> i.total_amount, supplier_name |-> SupplierOf(store, i).name,
     supplier_id |-> i.supplier_id, po_number |-> PoNumberOf(store, i)]

PurchaseOrderColumns(store, p) ==
    [po_id |-> p.po_id, po_number |-> p.po_number, order_date |-> p.order_date,
     currency_code |-> p.currency_code, status |-> p.status,
     total_amount |-> p.total_amount, supplier_name |-> SupplierOf(store, p).name,
     supplier_id |-> p.supplier_id]

AmountColumns(store, i) ==
    [invoice_number |-> i.invoice_number, invoice_date |-> i.invoice_date,
     total_amount |-> i.total_amount, currency_code |-> i.currency_code,
     status |-> i.status, supplier_name |-> SupplierOf(store, i).name,
     amount_paid |-> IF i.balance.null THEN Null ELSE Some(i.balance.v.amount_paid),
     balance_due |-> IF i.balance.null THEN Null ELSE Some(i.balance.v.balance_due)]

TotalAmount(r) == r.total_amount
PaidAmount(r) == IF r.status = "PAID" THEN r.total_amount ELSE 0

\* GROUP BY currency_code over the vendor's invoices / purchase orders.
InvoiceGroups(store, id) ==
    LET mine == { i \in store.invoices : i.supplier_id = id }
    IN  { [invoice_count |-> Cardinality({ i \in mine : i.currency_code = c }),
           total_invoiced |-> SumPairs({ <<i.invoice_id, TotalAmount(i)>> : i \in { x \in mine : x.currency_code = c } }),
           total_paid |-> SumPairs({ <<i.invoice_id, PaidAmount(i)>> : i \in { x \in mine : x.currency_code = c } }),
           currency_code |-> c] : c \in { i.currency_code : i \in mine } }

PurchaseOrderGroups(store, id) ==
    LET mine == { p \in store.purchase_orders : p.supplier_id = id }
    IN  { [po_count |-> Cardinality({ p \in mine : p.currency_code = c }),
           total_po_amount |-> SumPairs({ <<p.po_id, TotalAmount(p)>> : p \in { x \in mine : x.currency_code = c } }),
           currency_code |-> c] : c \in { p.currency_code : p \in mine } }

Rows(S) == [error |-> "", results |-> S]
DbError(msg) == [error |-> msg, results |-> {}]

\* cur.execute(query, params) followed by cur.fetchall(): the row sequences
\* the store can answer with, or the error the statement raises.
Execute(query, params, store) ==
    LET inv_mid == Middle(query, BeforeMarker(lookup_invoice_base_query),
                          AfterMarker(lookup_invoice_base_query))
        po_mid  == Middle(query, BeforeMarker(lookup_purchase_order_base_query),
                          AfterMarker(lookup_purchase_order_base_query))
        qa_mid  == Middle(query, query_amounts_head, query_amounts_tail)
        preds   == ParseWhere(qa_mid)
        Arity(n) == Len(params) = n
        Mismatch == DbError("not all arguments converted during string formatting")
    IN  CASE query = lookup_vendor_query_by_id ->
               IF ~Arity(1) THEN Mismatch
               ELSE Rows(AnyOrder({ VendorColumns(v) : v \in
                        { x \in store.suppliers : x.supplier_id = params[1] } }))
          [] query = lookup_vendor_query_by_name ->
               IF ~Arity(1) THEN Mismatch
               ELSE Rows(AnyOrder({ VendorColumns(v) : v \in
                        { x \in store.suppliers : ILike(x.name, params[1]) } }))
          [] query = lookup_vendor_query_all ->
               IF ~Arity(0) THEN Mismatch
               ELSE Rows(OrderedByName({ VendorColumns(v) : v \in store.suppliers }))
          [] query = vendor_query ->
               IF ~Arity(1) THEN Mismatch
               ELSE Rows(AnyOrder({ VendorIdentityColumns(v) : v \in
                        { x \in store.suppliers : x.supplier_id = params[1] } }))
          [] query = invoice_query ->
               IF ~Arity(1) THEN Mismatch
               ELSE Rows(AnyOrder(InvoiceGroups(store, params[1])))
          [] query = po_query ->
               IF ~Arity(1) THEN Mismatch
               ELSE Rows(AnyOrder(PurchaseOrderGroups(store, params[1])))
          [] inv_mid # "?" ->
               IF ParsePlaceholders(inv_mid) < 0 THEN DbError("syntax error at or near \")\"")
               ELSE IF ~Arity(ParsePlaceholders(inv_mid)) THEN Mismatch
               ELSE Rows(OrderedDesc({ InvoiceColumns(store, i) : i \in
                        { x \in Joined(store, store.invoices) :
                            \E k \in 1..Len(params) : x.invoice_number = params[k] } },
                        "invoice_date"))
          [] po_mid # "?" ->
               IF ParsePlaceholders(po_mid) < 0 THEN DbError("syntax error at or near \")\"")
               ELSE IF ~Arity(ParsePlaceholders(po_mid)) THEN Mismatch
               ELSE Rows(OrderedDesc({ PurchaseOrderColumns(store, p) : p \in
                        { x \in Joined(store, store.purchase_orders) :
                            \E k \in 1..Len(params) : x.po_number = params[k] } },
                        "order_date"))
          [] qa_mid # "?" ->
               IF preds = <<"?">> THEN DbError("syntax error in WHERE clause")
               ELSE IF ~Arity(Cardinality(Markers(preds))) THEN Mismatch
               ELSE Rows(OrderedDesc({ AmountColumns(store, i) : i \in
                        { x \in Joined(store, store.invoices) :
                            SatisfiesAll(x, preds, params) } },
                        "invoice_date"))
          [] OTHER -> DbError("syntax error")

\* The failures a connection attempt or a running statement can meet
\* whatever the statement is (psycopg2.OperationalError).
ConnectFailure == "connection refused"
ExecuteFailure == "server closed the connection unexpectedly"

\* query_db(query, params): every way the call can end.  opened counts the
\* connections get_db_connection returned, executed tells whether
\* cur.execute ran the statement.
query_db(query, params, store) ==
    LET e == Execute(query, params, store)
    IN  {[raised |-> TRUE, error |-> ConnectFailure, rows |-> <<>>,
          opened |-> 0, executed |-> FALSE]}
        \cup {[raised |-> TRUE, error |-> ExecuteFailure, rows |-> <<>>,
               opened |-> 1, executed |-> TRUE]}
        \cup IF e.error # ""
             THEN {[raised |-> TRUE, error |-> e.error, rows |-> <<>>,
                    opened |-> 1, executed |-> TRUE]}
             ELSE { [raised |-> FALSE, error |-> "", rows |-> r,
                     opened |-> 1, executed |-> TRUE] : r \in e.results }

----------------------------------------------------------------------------
(* The server. *)

\* TextContent(type="text", text=...)
TextContent(text) == [type |-> "text", text |-> text]

\* How a coroutine ends: it returns a list of contents or raises.
Return(text) == [kind |-> "return", value |-> <<TextContent(text)>>]
Raise(message) == [kind |-> "raise", value |-> message]
NoOutcome == [kind |-> "none", value |-> <<>>]

\* base_query.format(placeholders=placeholders)
Format(base_query, placeholders) ==
    BeforeMarker(base_query) \o placeholders \o AfterMarker(base_query)

\* A builder that ends every placeholder with a comma.
build_in_clause_query_trailing_comma(base_query, values) ==
    LET placeholders == Join("", Repeat("%s,", Len(values)))
        query == Format(base_query, placeholders)
    IN  [query |-> query, params |-> values]

build_in_clause_query(base_query, values) ==
    LET placeholders == Join(",", Repeat("%s", Len(values)))
        query == Format(base_query, placeholders)
    IN  [query |-> query, params |-> values]

Separator == 50

\* ---- lookup_vendor ----

lookup_vendor_statement(args) ==
    IF Has(args, "vendor_id") /\ TruthyInt(args.vendor_id)
    THEN [query |-> lookup_vendor_query_by_id, params |-> <<args.vendor_id>>]
    ELSE IF Has(args, "name") /\ TruthyStr(args.name)
    THEN [query |-> lookup_vendor_query_by_name, params |-> <<"%" \o args.name \o "%">>]
    ELSE [query |-> lookup_vendor_query_all, params |-> <<>>]

VendorRecord(vendor) ==
    "ID: " \o ToString(vendor.supplier_id) \o "\n"
    \o "Name: " \o vendor.name \o "\n"
    \o "Email: " \o vendor.contact_email \o "\n"
    \o "Phone: " \o vendor.phone \o "\n"
    \o "Billing Address: " \o vendor.billing_address \o "\n"
    \o StrTimes("-", Separator) \o "\n"

\* A formatter without the test for an empty result.
lookup_vendor_format_no_empty_test(results) ==
    "Vendor Information:\n\n"
    \o Join("", [k \in 1..Len(results) |-> VendorRecord(results[k])])

lookup_vendor_format(results) ==
    IF ~TruthyList(results) THEN "No vendors found."
    ELSE "Vendor Information:\n\n"
         \o Join("", [k \in 1..Len(results) |-> VendorRecord(results[k])])

\* ---- lookup_invoice ----

\* A test for None alone: an empty list passes it.
lookup_invoice_missing_only_none(args) == ~Has(args, "invoice_numbers")

lookup_invoice_missing(args) ==
    ~(Has(args, "invoice_numbers") /\ TruthyList(args.invoice_numbers))

lookup_invoice_statement(args) ==
    build_in_clause_query(lookup_invoice_base_query, args.invoice_numbers)

\* x or 'N/A' for a nullable text column
OrNA(x) == IF x.null \/ ~TruthyStr(x.v) THEN "N/A" ELSE x.v

InvoiceRecord(inv) ==
    "Invoice Number: " \o inv.invoice_number \o "\n"
    \o "Supplier: " \o inv.supplier_name \o " (ID: " \o ToString(inv.supplier_id) \o ")\n"
    \o "PO Number: " \o OrNA(inv.po_number) \o "\n"
    \o "Invoice Date: " \o DateStr(inv.invoice_date) \o "\n"
    \o "Due Date: " \o DateStr(inv.due_date) \o "\n"
    \o "Status: " \o inv.status \o "\n"
    \o "Subtotal: " \o inv.currency_code \o " " \o ToString(inv.subtotal_amount) \o "\n"
    \o "Tax: " \o inv.currency_code \o " " \o ToString(inv.tax_amount) \o "\n"
    \o "Total Amount: " \o inv.currency_code \o " " \o ToString(inv.total_amount) \o "\n"
    \o StrTimes("-", Separator) \o "\n"

lookup_invoice_format(results) ==
    IF ~TruthyList(results) THEN "No invoices found."
    ELSE "Invoice Information:\n\n"
         \o Join("", [k \in 1..Len(results) |-> InvoiceRecord(results[k])])

\* ---- lookup_purchase_order ----

lookup_purchase_order_missing(args) ==
    ~(Has(args, "po_numbers") /\ TruthyList(args.po_numbers))

lookup_purchase_order_statement(args) ==
    build_in_clause_query(lookup_purchase_order_base_query, args.po_numbers)

PurchaseOrderRecord(po) ==
    "PO Number: " \o po.po_number \o "\n"
    \o "Supplier: " \o po.supplier_name \o " (ID: " \o ToString(po.supplier_id) \o ")\n"
    \o "Order Date: " \o DateStr(po.order_date) \o "\n"
    \o "Status: " \o po.status \o "\n"
    \o "Total Amount: " \o po.currency_code \o " " \o ToString(po.total_amount) \o "\n"
    \o StrTimes("-", Separator) \o "\n"

lookup_purchase_order_format(results) ==
    IF ~TruthyList(results) THEN "No purchase orders found."
    ELSE "Purchase Order Information:\n\n"
         \o Join("", [k \in 1..Len(results) |-> PurchaseOrderRecord(results[k])])

\* ---- query_amounts ----

\* conditions and params after the four ifs, as [condition, param] pairs.
query_amounts_filters(args) ==
    (IF Has(args, "vendor_id") /\ TruthyInt(args.vendor_id)
     THEN <<[condition |-> "i.supplier_id = %s", param |-> args.vendor_id]>> ELSE <<>>)
    \o (IF Has(args, "min_amount")
        THEN <<[condition |-> "i.total_amount >= %s", param |-> args.min_amount]>> ELSE <<>>)
    \o (IF Has(args, "max_amount")
        THEN <<[condition |-> "i.total_amount <= %s", param |-> args.max_amount]>> ELSE <<>>)
    \o (IF Has(args, "status") /\ TruthyStr(args.status)
        THEN <<[condition |-> "i.status = %s", param |-> args.status]>> ELSE <<>>)

query_amounts_statement(args) ==
    LET filters == query_amounts_filters(args)
        conditions == [k \in 1..Len(filters) |-> filters[k].condition]
        params == [k \in 1..Len(filters) |-> filters[k].param]
        where_clause == IF TruthyList(conditions) THEN Join(" AND ", conditions) ELSE "1=1"
    IN  [query |-> query_amounts_query(where_clause), params |-> params]

\* x or d for a nullable amount
OrAmount(x, d) == IF x.null \/ ~TruthyInt(x.v) THEN d ELSE x.v

AmountRecord(inv) ==
    "Invoice: " \o inv.invoice_number \o "\n"
    \o "Supplier: " \o inv.supplier_name \o "\n"
    \o "Date: " \o DateStr(inv.invoice_date) \o "\n"
    \o "Total: " \o inv.currency_code \o " " \o ToString(inv.total_amount) \o "\n"
    \o "Paid: " \o inv.currency_code \o " " \o ToString(OrAmount(inv.amount_paid, 0)) \o "\n"
    \o "Balance Due: " \o inv.currency_code \o " "
       \o ToString(OrAmount(inv.balance_due, inv.total_amount)) \o "\n"
    \o "Status: " \o inv.status \o "\n"
    \o StrTimes("-", Separator) \o "\n"

\* A total that adds every row, whatever its currency.
RECURSIVE UsdTotalAnyCurrency(_, _)
UsdTotalAnyCurrency(results, n) ==
    IF n = 0 THEN 0
    ELSE UsdTotalAnyCurrency(results, n - 1) + results[n].total_amount

\* total after the loop over the first n rows
RECURSIVE UsdTotal(_, _)
UsdTotal(results, n) ==
    IF n = 0 THEN 0
    ELSE UsdTotal(results, n - 1)
         + (IF results[n].currency_code = "USD" THEN results[n].total_amount ELSE 0)

query_amounts_format(results) ==
    IF ~TruthyList(results) THEN "No invoices found matching criteria."
    ELSE "Financial Query Results:\n\n"
         \o Join("", [k \in 1..Len(results) |-> AmountRecord(results[k])])
         \o "\nTotal (USD only): $" \o Fmt2f(UsdTotal(results, Len(results))) \o "\n"

\* ---- get_vendor_summary ----

get_vendor_summary_missing(args) ==
    ~(Has(args, "vendor_id") /\ TruthyInt(args.vendor_id))

InvoiceBlock(stat) ==
    "  Currency: " \o stat.currency_code \o "\n"
    \o "  Total Invoices: " \o ToString(stat.invoice_count) \o "\n"
    \o "  Total Invoiced: " \o stat.currency_code \o " " \o ToString(stat.total_invoiced) \o "\n"
    \o "  Total Paid: " \o stat.currency_code \o " " \o ToString(stat.total_paid) \o "\n"
    \o "  Outstanding: " \o stat.currency_code \o " "
       \o FloatStr(stat.total_invoiced - stat.total_paid) \o "\n"

PurchaseOrderBlock(stat) ==
    "  Currency: " \o stat.currency_code \o "\n"
    \o "  Total POs: " \o ToString(stat.po_count) \o "\n"
    \o "  Total Amount: " \o stat.currency_code \o " " \o ToString(stat.total_po_amount) \o "\n"

\* A formatter that renders the first invoice group only.
get_vendor_summary_format_first_group(vendor, invoice_stats, po_stats) ==
    "Vendor Summary for: " \o vendor.name \o "\n"
    \o "ID: " \o ToString(vendor.supplier_id) \o "\n"
    \o "Email: " \o vendor.contact_email \o "\n"
    \o "Phone: " \o vendor.phone \o "\n"
    \o StrTimes("=", Separator) \o "\n\n"
    \o "Invoice Summary:\n"
    \o (IF TruthyList(invoice_stats)
        THEN InvoiceBlock(invoice_stats[1])
        ELSE "  No invoices found.\n")
    \o "\nPurchase Order Summary:\n"
    \o (IF TruthyList(po_stats)
        THEN Join("", [k \in 1..Len(po_stats) |-> PurchaseOrderBlock(po_stats[k])])
        ELSE "  No purchase orders found.\n")

get_vendor_summary_format(vendor, invoice_stats, po_stats) ==
    "Vendor Summary for: " \o vendor.name \o "\n"
    \o "ID: " \o ToString(vendor.supplier_id) \o "\n"
    \o "Email: " \o vendor.contact_email \o "\n"
    \o "Phone: " \o vendor.phone \o "\n"
    \o StrTimes("=", Separator) \o "\n\n"
    \o "Invoice Summary:\n"
    \o (IF TruthyList(invoice_stats)
        THEN Join("", [k \in 1..Len(invoice_stats) |-> InvoiceBlock(invoice_stats[k])])
        ELSE "  No invoices found.\n")
    \o "\nPurchase Order Summary:\n"
    \o (IF TruthyList(po_stats)
        THEN Join("", [k \in 1..Len(po_stats) |-> PurchaseOrderBlock(po_stats[k])])
        ELSE "  No purchase orders found.\n")

----------------------------------------------------------------------------
(* Callers: the tool names and argument maps the host hands over. *)

ToolNames ==
    {"lookup_vendor", "lookup_invoice", "lookup_purchase_order", "query_amounts",
     "get_vendor_summary"}
OtherNames == {"delete_vendor", "LOOKUP_VENDOR"}

VendorIdValues == {0, 1, 2}
NameValues == {"", "acme", "CO"}
InvoiceNumberValues == {"INV-001", "INV-002", "INV-003"}
PoNumberValues == {"PO-001", "PO-002"}
AmountValues == {0, 50}
StatusValues == {"", "PAID"}

Lists(S) == UNION { [1..n -> S] : n \in 0..MaxLen }

\* The map that keeps the keys of m in present: a caller leaves any key out.
Restrict(m, present) == [k \in present |-> m[k]]

ArgumentMaps(n) ==
    CASE n = "lookup_vendor" ->
            { Restrict([vendor_id |-> v, name |-> x], present) :
                v \in VendorIdValues, x \in NameValues,
                present \in SUBSET {"vendor_id", "name"} }
      [] n = "lookup_invoice" ->
            { Restrict([invoice_numbers |-> l], present) :
                l \in Lists(InvoiceNumberValues), present \in SUBSET {"invoice_numbers"} }
      [] n = "lookup_purchase_order" ->
            { Restrict([po_numbers |-> l], present) :
                l \in Lists(PoNumberValues), present \in SUBSET {"po_numbers"} }
      [] n = "query_amounts" ->
            { Restrict([vendor_id |-> v, min_amount |-> lo, max_amount |-> hi, status |-> s],
                       present) :
                v \in VendorIdValues, lo \in AmountValues, hi \in AmountValues,
                s \in StatusValues,
                present \in SUBSET {"vendor_id", "min_amount", "max_amount", "status"} }
      [] OTHER ->
            { Restrict([vendor_id |-> v], present) :
                v \in VendorIdValues, present \in SUBSET {"vendor_id"} }

\* arguments: dict | None
NoArguments == [none |-> TRUE, map |-> <<>>]
Arguments(n) == {NoArguments} \cup { [none |-> FALSE, map |-> m] : m \in ArgumentMaps(n) }

----------------------------------------------------------------------------
(* Actions. *)

NoLocals == [vendor_results |-> <<>>, invoice_stats |-> <<>>]
NoCall == [name |-> "", supplied |-> {}, lengths |-> <<>>, sql |-> <<>>]

Init ==
    /\ db \in Stores
    /\ pc = "idle"
    /\ name = ""
    /\ arguments = NoArguments
    /\ invoked = <<>>
    /\ stmts = <<>>
    /\ conns = 0
    /\ locals = NoLocals
    /\ handler_result = NoOutcome
    /\ outcome = NoOutcome
    /\ prev = NoCall

\* A handler that catches only the error it raises itself.
CaughtOnlyValueError(result) ==
    IF result.kind = "raise" /\ StartsWith(result.value, "Unknown tool: ")
    THEN Return("Error: " \o result.value)
    ELSE result

\* except Exception as e: return [TextContent(type="text", text=f"Error: {str(e)}")]
Caught(result) ==
    IF result.kind = "raise" THEN Return("Error: " \o result.value) ELSE result

\* The log of query_db calls after the call with statement st ended as q.
\* conn numbers the connection of the current call the statement ran on: each
\* query_db call that connects gets a connection of its own, 0 when it could
\* not connect.
Logged(st, q) ==
    stmts \o <<[sql |-> st.query, params |-> st.params, executed |-> q.executed,
                error |-> q.error, rows |-> q.rows,
                conn |-> IF q.opened = 1 THEN conns + 1 ELSE 0]>>

\* handle_call_tool ends with `result`, a handler's return or raise.
Finish(result) ==
    /\ handler_result' = result
    /\ outcome' = Caught(result)
    /\ pc' = "done"
    /\ locals' = NoLocals

\* A handler that returns before it reaches the database.
Local(text) ==
    /\ stmts' = <<>>
    /\ conns' = 0
    /\ Finish(Return(text))

\* The rendering of handler h for the rows of its statement.
Render(h, results) ==
    CASE h = "lookup_vendor" -> lookup_vendor_format(results)
      [] h = "lookup_invoice" -> lookup_invoice_format(results)
      [] h = "lookup_purchase_order" -> lookup_purchase_order_format(results)
      [] h = "query_amounts" -> query_amounts_format(results)

\* Handler h runs its one statement st and renders the rows.
OneStatement(h, st) ==
    \E q \in query_db(st.query, st.params, db) :
        /\ stmts' = Logged(st, q)
        /\ conns' = conns + q.opened
        /\ Finish(IF q.raised THEN Raise(q.error) ELSE Return(Render(h, q.rows)))

lookup_vendor(args) ==
    OneStatement("lookup_vendor", lookup_vendor_statement(args))

lookup_invoice(args) ==
    IF lookup_invoice_missing(args)
    THEN Local("No invoice numbers provided.")
    ELSE OneStatement("lookup_invoice", lookup_invoice_statement(args))

lookup_purchase_order(args) ==
    IF lookup_purchase_order_missing(args)
    THEN Local("No purchase order numbers provided.")
    ELSE OneStatement("lookup_purchase_order", lookup_purchase_order_statement(args))

query_amounts(args) ==
    OneStatement("query_amounts", query_amounts_statement(args))

\* get_vendor_summary up to and including its first statement.
get_vendor_summary(args) ==
    IF get_vendor_summary_missing(args)
    THEN Local("Vendor ID is required.")
    ELSE LET st == [query |-> vendor_query, params |-> <<args.vendor_id>>]
         IN  \E q \in query_db(st.query, st.params, db) :
                /\ stmts' = Logged(st, q)
                /\ conns' = conns + q.opened
                /\ IF q.raised THEN Finish(Raise(q.error))
                   ELSE IF ~TruthyList(q.rows) THEN Finish(Return("Vendor not found."))
                   ELSE /\ locals' = [locals EXCEPT !.vendor_results = q.rows]
                        /\ pc' = "summary_invoices"
                        /\ UNCHANGED <<handler_result, outcome>>

\* if arguments is None: arguments = {}
EffectiveArguments(a) == IF a.none THEN <<>> ELSE a.map

\* A chain that compares names without regard to case.
RouteIgnoringCase(n) ==
    IF Lower(n) \in {"lookup_vendor", "lookup_invoice", "lookup_purchase_order",
                     "query_amounts", "get_vendor_summary"}
    THEN Lower(n) ELSE ""

\* The branch of the if/elif chain a name takes: the handler of that name,
\* "" for the else branch.
Route(n) ==
    IF n \in {"lookup_vendor", "lookup_invoice", "lookup_purchase_order",
              "query_amounts", "get_vendor_summary"}
    THEN n ELSE ""

\* handle_call_tool(name, arguments)
handle_call_tool(n, a) ==
    /\ pc = "idle"
    /\ name' = n
    /\ arguments' = a
    /\ LET args == EffectiveArguments(a)
           h == Route(n)
       IN  CASE h = "lookup_vendor" -> invoked' = <<h>> /\ lookup_vendor(args)
             [] h = "lookup_invoice" -> invoked' = <<h>> /\ lookup_invoice(args)
             [] h = "lookup_purchase_order" ->
                   invoked' = <<h>> /\ lookup_purchase_order(args)
             [] h = "query_amounts" -> invoked' = <<h>> /\ query_amounts(args)
             [] h = "get_vendor_summary" -> invoked' = <<h>> /\ get_vendor_summary(args)
             [] OTHER -> /\ invoked' = <<>>
                         /\ stmts' = <<>>
                         /\ conns' = 0
                         /\ Finish(Raise("Unknown tool: " \o n))
    /\ UNCHANGED db

\* A summary that returns as soon as the vendor has no invoices.
SummaryInvoicesStopsWhenEmpty ==
    /\ pc = "summary_invoices"
    /\ LET st == [query |-> invoice_query,
                  params |-> <<EffectiveArguments(arguments).vendor_id>>]
       IN  \E q \in query_db(st.query, st.params, db) :
              /\ stmts' = Logged(st, q)
              /\ conns' = conns + q.opened
              /\ IF q.raised THEN Finish(Raise(q.error))
                 ELSE IF ~TruthyList(q.rows)
                 THEN Finish(Return(get_vendor_summary_format(
                                  locals.vendor_results[1], <<>>, <<>>)))
                 ELSE /\ locals' = [locals EXCEPT !.invoice_stats = q.rows]
                      /\ pc' = "summary_pos"
                      /\ UNCHANGED <<handler_result, outcome>>
    /\ UNCHANGED <<db, name, arguments, invoked>>

\* get_vendor_summary's second statement: the invoice aggregate.
SummaryInvoices ==
    /\ pc = "summary_invoices"
    /\ LET st == [query |-> invoice_query,
                  params |-> <<EffectiveArguments(arguments).vendor_id>>]
       IN  \E q \in query_db(st.query, st.params, db) :
              /\ stmts' = Logged(st, q)
              /\ conns' = conns + q.opened
              /\ IF q.raised THEN Finish(Raise(q.error))
                 ELSE /\ locals' = [locals EXCEPT !.invoice_stats = q.rows]
                      /\ pc' = "summary_pos"
                      /\ UNCHANGED <<handler_result, outcome>>
    /\ UNCHANGED <<db, name, arguments, invoked>>

\* A summary that looks for the vendor in the store once more before it
\* renders, and gives up when the vendor has gone.
SummaryPurchaseOrdersRechecksVendor ==
    /\ pc = "summary_pos"
    /\ LET st == [query |-> po_query,
                  params |-> <<EffectiveArguments(arguments).vendor_id>>]
       IN  \E q \in query_db(st.query, st.params, db) :
              /\ stmts' = Logged(st, q)
              /\ conns' = conns + q.opened
              /\ Finish(IF q.raised THEN Raise(q.error)
                        ELSE IF \A v \in db.suppliers :
                                   v.supplier_id # locals.vendor_results[1].supplier_id
                        THEN Return("Vendor not found.")
                        ELSE Return(get_vendor_summary_format(
                                 locals.vendor_results[1], locals.invoice_stats, q.rows)))
    /\ UNCHANGED <<db, name, arguments, invoked>>

\* get_vendor_summary's third statement, the PO aggregate, and the rendering.
SummaryPurchaseOrders ==
    /\ pc = "summary_pos"
    /\ LET st == [query |-> po_query,
                  params |-> <<EffectiveArguments(arguments).vendor_id>>]
       IN  \E q \in query_db(st.query, st.params, db) :
              /\ stmts' = Logged(st, q)
              /\ conns' = conns + q.opened
              /\ Finish(IF q.raised THEN Raise(q.error)
                        ELSE Return(get_vendor_summary_format(
                                 locals.vendor_results[1], locals.invoice_stats, q.rows)))
    /\ UNCHANGED <<db, name, arguments, invoked>>

\* The host delivers the response and waits for the next call.
ServeNext ==
    /\ pc = "done"
    /\ pc' = "idle"
    /\ name' = ""
    /\ arguments' = NoArguments
    /\ invoked' = <<>>
    /\ stmts' = <<>>
    /\ conns' = 0
    /\ handler_result' = NoOutcome
    /\ outcome' = NoOutcome
    /\ UNCHANGED <<db, locals>>

\* Another party changes the backing store while no statement is running.
DbChange ==
    /\ pc \in {"idle", "summary_invoices", "summary_pos"}
    /\ db' \in Stores \ {db}
    /\ UNCHANGED <<pc, name, arguments, invoked, stmts, conns, locals, handler_result, outcome>>

CallTool == \E n \in ToolNames \cup OtherNames : \E a \in Arguments(n) : handle_call_tool(n, a)

Next ==
    \/ CallTool /\ UNCHANGED prev
    \/ SummaryInvoices /\ UNCHANGED prev
    \/ SummaryPurchaseOrders /\ UNCHANGED prev
    \/ ServeNext /\ UNCHANGED prev
    \/ DbChange /\ UNCHANGED prev

Spec == Init /\ [][Next]_vars

\* The keys a call supplies and the lengths of the lists it supplies.
Supplied(a) == DOMAIN EffectiveArguments(a)
ListLengths(n, a) ==
    LET args == EffectiveArguments(a)
    IN  IF n = "lookup_invoice" /\ Has(args, "invoice_numbers")
        THEN <<Len(args.invoice_numbers)>>
        ELSE IF n = "lookup_purchase_order" /\ Has(args, "po_numbers")
        THEN <<Len(args.po_numbers)>>
        ELSE <<>>

\* What is remembered of a served call: its name, which filters it supplied,
\* and the text of the statements it passed to query_db.
Remember ==
    prev' = [name |-> name, supplied |-> Supplied(arguments),
             lengths |-> ListLengths(name, arguments),
             sql |-> [k \in 1..Len(stmts) |-> stmts[k].sql]]

\* The server over one unchanging store, each call remembered for the next.
InitHistory == Init /\ db = [suppliers |-> SupplierRows, invoices |-> InvoiceRows,
                             purchase_orders |-> PurchaseOrderRows]

NextHistory ==
    \/ CallTool /\ UNCHANGED prev
    \/ SummaryInvoices /\ UNCHANGED prev
    \/ SummaryPurchaseOrders /\ UNCHANGED prev
    \/ ServeNext /\ Remember

SpecHistory == InitHistory /\ [][NextHistory]_vars


\* What is remembered of a served call for the call that repeats it: the name
\* and arguments it was given, the response it got, and whether every
\* statement it ran ended without an error.
RememberResponse ==
    prev' = [name |-> name, arguments |-> arguments, outcome |-> outcome,
             clean |-> \A k \in 1..Len(stmts) : stmts[k].executed /\ stmts[k].error = ""]

\* The host sends the call it sent before, with identical arguments.
RepeatCall == prev.name # "" /\ handle_call_tool(prev.name, prev.arguments)

\* The server over one unchanging store, every call repeated.
NextRepeat ==
    \/ prev.name = "" /\ CallTool /\ UNCHANGED prev
    \/ RepeatCall /\ UNCHANGED prev
    \/ SummaryInvoices /\ UNCHANGED prev
    \/ SummaryPurchaseOrders /\ UNCHANGED prev
    \/ ServeNext /\ RememberResponse

SpecRepeat == InitHistory /\ [][NextRepeat]_vars
----------------------------------------------------------------------------
(* Properties. *)

\* The argument map the handler of the current call works on, and the text
\* of the response handle_call_tool returned.
Args == EffectiveArguments(arguments)
Responded == pc = "done" /\ outcome.kind = "return" /\ Len(outcome.value) = 1
Text == outcome.value[1].text

\* The current call ran k statements to the end without an error.
Succeeded(k) ==
    /\ Len(stmts) >= k
    /\ \A j \in 1..k : stmts[j].executed /\ stmts[j].error = ""

\* C1: handle_call_tool never propagates a failure.  Whatever the tool name,
\* the argument map (None included, read as the empty map) and the failure
\* raised while the handler ran, the call returns exactly one text content,
\* "Error: " followed by the raised message; a handler that returns has its
\* response passed on unchanged.
C1_NeverPropagates ==
    pc = "done" =>
        /\ outcome.kind = "return"
        /\ Len(outcome.value) = 1
        /\ outcome.value[1].type = "text"
        /\ \A k \in 1..Len(stmts) :
              stmts[k].error # "" =>
                  k = Len(stmts) /\ Text = "Error: " \o stmts[k].error
        /\ handler_result.kind = "raise" => Text = "Error: " \o handler_result.value
        /\ handler_result.kind = "return" => outcome = handler_result
        /\ arguments.none =>
              /\ name = "lookup_invoice" => Text = "No invoice numbers provided."
              /\ name = "get_vendor_summary" => Text = "Vendor ID is required."
              /\ name = "lookup_vendor" => stmts[1].sql = lookup_vendor_query_all
              /\ name = "query_amounts" => stmts[1].sql = query_amounts_query("1=1")

\* C1 witness: a statement of query_amounts failed in the database and the
\* caller got the failure as text.
C1_Witness ==
    /\ pc = "done"
    /\ name = "query_amounts"
    /\ Len(stmts) = 1
    /\ stmts[1].error = ExecuteFailure
    /\ outcome = Return("Error: " \o ExecuteFailure)

\* C2: a name that is not one of the five registered tools is answered
\* "Error: Unknown tool: <name>" with no handler invoked and no statement
\* issued; a registered name invokes exactly the handler of that name.
C2_UnknownTool ==
    pc # "idle" =>
        /\ name \notin ToolNames =>
              /\ pc = "done"
              /\ outcome = Return("Error: Unknown tool: " \o name)
              /\ invoked = <<>>
              /\ stmts = <<>>
              /\ conns = 0
        /\ name \in ToolNames => invoked = <<name>>

\* C2 witness: an unregistered name has been answered.
C2_Witness ==
    /\ pc = "done"
    /\ name = "LOOKUP_VENDOR"
    /\ invoked = <<>>
    /\ outcome = Return("Error: Unknown tool: LOOKUP_VENDOR")

\* The handler answered with `text` without reaching the database.
AnsweredLocally(text) ==
    /\ outcome = Return(text)
    /\ ~StartsWith(Text, "Error: ")
    /\ stmts = <<>>
    /\ conns = 0

\* C3: a missing required argument is answered locally with fixed text:
\* absent or empty invoice_numbers / po_numbers and an absent vendor_id of
\* get_vendor_summary issue no statement, open no connection and give a text
\* that does not start with "Error: ".
C3_MissingRequired ==
    pc = "done" =>
        /\ (/\ name = "lookup_invoice"
            /\ (~Has(Args, "invoice_numbers") \/ Args.invoice_numbers = <<>>))
              => AnsweredLocally("No invoice numbers provided.")
        /\ (/\ name = "lookup_purchase_order"
            /\ (~Has(Args, "po_numbers") \/ Args.po_numbers = <<>>))
              => AnsweredLocally("No purchase order numbers provided.")
        /\ (name = "get_vendor_summary" /\ ~Has(Args, "vendor_id"))
              => AnsweredLocally("Vendor ID is required.")

\* C3 witness: lookup_invoice was called with an empty list and answered.
C3_Witness ==
    /\ pc = "done"
    /\ name = "lookup_invoice"
    /\ Has(Args, "invoice_numbers")
    /\ Args.invoice_numbers = <<>>
    /\ AnsweredLocally("No invoice numbers provided.")

\* m is n "%s" markers joined by commas, with no trailing comma.
IsPlaceholderList(m, n) ==
    /\ Len(m) = 3 * n - 1
    /\ \A j \in 1..n : SubSeq(m, 3 * j - 2, 3 * j - 1) = "%s"
    /\ \A j \in 1..(n - 1) : SubSeq(m, 3 * j, 3 * j) = ","

\* statement is base with its one marker replaced by a list of n placeholders.
IsInClauseOf(statement, base, n) ==
    /\ Count(base, Marker) = 1
    /\ Count(statement, Marker) = 0
    /\ Len(statement) = Len(base) - Len(Marker) + 3 * n - 1
    /\ IsPlaceholderList(Middle(statement, BeforeMarker(base), AfterMarker(base)), n)

\* C4: every statement lookup_invoice / lookup_purchase_order pass to
\* query_db is the base statement with the marker replaced by N >= 1 "%s"
\* joined by commas, bound to the N input values in input order (duplicates
\* kept); build_in_clause_query is never reached with N = 0.
C4_InClause ==
    \A k \in 1..Len(stmts) :
        /\ name = "lookup_invoice" =>
              /\ Has(Args, "invoice_numbers")
              /\ Len(Args.invoice_numbers) >= 1
              /\ IsInClauseOf(stmts[k].sql, lookup_invoice_base_query,
                              Len(Args.invoice_numbers))
              /\ stmts[k].params = Args.invoice_numbers
        /\ name = "lookup_purchase_order" =>
              /\ Has(Args, "po_numbers")
              /\ Len(Args.po_numbers) >= 1
              /\ IsInClauseOf(stmts[k].sql, lookup_purchase_order_base_query,
                              Len(Args.po_numbers))
              /\ stmts[k].params = Args.po_numbers

\* C4 witness: a list with a repeated number went to the database as two
\* placeholders and two parameters.
C4_Witness ==
    /\ pc = "done"
    /\ name = "lookup_invoice"
    /\ Succeeded(1)
    /\ stmts[1].params = <<"INV-002", "INV-002">>
    /\ IsInClauseOf(stmts[1].sql, lookup_invoice_base_query, 2)

\* C5: lookup_vendor chooses its statement by which filter is supplied: a
\* supplied vendor_id (any integer) gives the supplier_id statement bound to
\* it, name ignored; a name alone gives the ILIKE statement bound to
\* "%<name>%"; neither gives the listing ordered by name with no parameter.
C5_FilterPrecedence ==
    \A k \in 1..Len(stmts) :
        name = "lookup_vendor" =>
            IF Has(Args, "vendor_id")
            THEN /\ stmts[k].sql = lookup_vendor_query_by_id
                 /\ stmts[k].params = <<Args.vendor_id>>
            ELSE IF Has(Args, "name")
            THEN /\ stmts[k].sql = lookup_vendor_query_by_name
                 /\ stmts[k].params = <<"%" \o Args.name \o "%">>
            ELSE /\ stmts[k].sql = lookup_vendor_query_all
                 /\ stmts[k].params = <<>>

\* The predicate each filter of query_amounts stands for, in the fixed order.
FilterOrder ==
    << [key |-> "vendor_id",  condition |-> "i.supplier_id = %s"],
       [key |-> "min_amount", condition |-> "i.total_amount >= %s"],
       [key |-> "max_amount", condition |-> "i.total_amount <= %s"],
       [key |-> "status",     condition |-> "i.status = %s"] >>

IsSupplied(f) == Has(Args, f.key)
SuppliedFilters == SelectSeq(FilterOrder, IsSupplied)

\* C6: the WHERE clause of query_amounts is the conjunction of exactly one
\* predicate per supplied filter, in the order vendor, min, max, status, with
\* the supplied values bound in that order; with no filter it is "1=1" with
\* no parameter.
C6_Conjunction ==
    \A k \in 1..Len(stmts) :
        name = "query_amounts" =>
            LET where_clause ==
                    Middle(stmts[k].sql, query_amounts_head, query_amounts_tail)
                expected == [j \in 1..Len(SuppliedFilters) |-> SuppliedFilters[j].condition]
            IN  /\ where_clause = IF expected = <<>> THEN "1=1" ELSE Join(" AND ", expected)
                /\ stmts[k].params =
                      [j \in 1..Len(SuppliedFilters) |-> Args[SuppliedFilters[j].key]]

\* The sum of total_amount over the USD rows of a result.
UsdSum(rows) ==
    SumPairs({ <<k, rows[k].total_amount>> :
                 k \in { j \in 1..Len(rows) : rows[j].currency_code = "USD" } })

\* C7: for every non-empty result of query_amounts the response ends with
\* the line "Total (USD only): $<sum>" where the sum runs over exactly the
\* returned rows whose currency_code is "USD" (0.00 when there is none), and
\* every returned row, of any currency, is listed as one record.
C7_UsdTotal ==
    (/\ pc = "done"
     /\ name = "query_amounts"
     /\ Succeeded(1)
     /\ stmts[1].rows # <<>>)
    => /\ Responded
       /\ EndsWith(Text, "\nTotal (USD only): $" \o Fmt2f(UsdSum(stmts[1].rows)) \o "\n")
       /\ Count(Text, "Total (USD only)") = 1
       /\ Count(Text, "Invoice: ") = Len(stmts[1].rows)
       /\ \A k \in 1..Len(stmts[1].rows) :
             Count(Text, "Invoice: " \o stmts[1].rows[k].invoice_number \o "\n"
                         \o "Supplier: " \o stmts[1].rows[k].supplier_name \o "\n") = 1

\* C7 witness: a result that mixes USD and non-USD rows has been rendered.
C7_Witness ==
    /\ pc = "done"
    /\ name = "query_amounts"
    /\ Succeeded(1)
    /\ \E j, k \in 1..Len(stmts[1].rows) :
          /\ stmts[1].rows[j].currency_code = "USD"
          /\ stmts[1].rows[k].currency_code = "EUR"
    /\ UsdSum(stmts[1].rows) = 130
    /\ EndsWith(Text, "\nTotal (USD only): $130.00\n")

\* The fixed sentence of each one-statement operation for an empty result.
EmptySentence(n) ==
    CASE n = "lookup_vendor" -> "No vendors found."
      [] n = "lookup_invoice" -> "No invoices found."
      [] n = "lookup_purchase_order" -> "No purchase orders found."
      [] n = "query_amounts" -> "No invoices found matching criteria."

\* C8: a statement that succeeds with zero rows is rendered as the
\* operation's fixed empty-result sentence, never as an error; in
\* get_vendor_summary an empty aggregate of an existing vendor renders
\* "  No invoices found." / "  No purchase orders found." inside the summary.
C8_EmptyResult ==
    pc = "done" =>
        /\ (/\ name \in {"lookup_vendor", "lookup_invoice", "lookup_purchase_order",
                         "query_amounts"}
            /\ Succeeded(1)
            /\ stmts[1].rows = <<>>)
              => /\ outcome = Return(EmptySentence(name))
                 /\ ~StartsWith(Text, "Error: ")
        /\ (name = "get_vendor_summary" /\ Len(stmts) = 3 /\ Succeeded(3))
              => /\ Responded
                 /\ ~StartsWith(Text, "Error: ")
                 /\ stmts[2].rows = <<>> =>
                       Count(Text, "Invoice Summary:\n  No invoices found.\n\n") = 1
                 /\ stmts[3].rows = <<>> =>
                       EndsWith(Text, "\nPurchase Order Summary:\n  No purchase orders found.\n")

\* C8 witness: the summary of an existing vendor with invoices and no
\* purchase order has been rendered.
C8_Witness ==
    /\ pc = "done"
    /\ name = "get_vendor_summary"
    /\ Len(stmts) = 3
    /\ Succeeded(3)
    /\ stmts[2].rows # <<>>
    /\ stmts[3].rows = <<>>
    /\ EndsWith(Text, "  No purchase orders found.\n")

\* The lines of an invoice block that carry the figures of one group.
GroupFigures(stat) ==
    "  Currency: " \o stat.currency_code \o "\n"
    \o "  Total Invoices: " \o ToString(stat.invoice_count) \o "\n"
    \o "  Total Invoiced: " \o stat.currency_code \o " " \o ToString(stat.total_invoiced) \o "\n"
    \o "  Total Paid: " \o stat.currency_code \o " " \o ToString(stat.total_paid) \o "\n"
    \o "  Outstanding: " \o stat.currency_code \o " "
       \o ToString(stat.total_invoiced - stat.total_paid) \o ".0\n"

\* C9: the summary of an existing vendor renders the identity fields once,
\* one invoice block per currency group of the invoice aggregate and one
\* purchase-order block per group of the PO aggregate; each invoice block's
\* Outstanding is that group's total_invoiced minus that group's total_paid.
C9_SummaryBlocks ==
    (/\ pc = "done"
     /\ name = "get_vendor_summary"
     /\ Len(stmts) = 3
     /\ Succeeded(3))
    => /\ Responded
       /\ StartsWith(Text, "Vendor Summary for: " \o stmts[1].rows[1].name \o "\n"
                           \o "ID: " \o ToString(stmts[1].rows[1].supplier_id) \o "\n")
       /\ Count(Text, "Vendor Summary for: ") = 1
       /\ Count(Text, "ID: ") = 1
       /\ Count(Text, "Email: ") = 1
       /\ Count(Text, "Phone: ") = 1
       /\ Count(Text, "  Outstanding: ") = Len(stmts[2].rows)
       /\ Count(Text, "  Total POs: ") = Len(stmts[3].rows)
       /\ \A k \in 1..Len(stmts[2].rows) : Count(Text, GroupFigures(stmts[2].rows[k])) = 1
       /\ \A k \in 1..Len(stmts[3].rows) :
             Count(Text, "  Currency: " \o stmts[3].rows[k].currency_code \o "\n"
                         \o "  Total POs: " \o ToString(stmts[3].rows[k].po_count) \o "\n") = 1

\* C9 witness: a vendor with invoices in two currencies, one group holding a
\* paid and an unpaid invoice, got two invoice blocks.
C9_Witness ==
    /\ pc = "done"
    /\ name = "get_vendor_summary"
    /\ Len(stmts) = 3
    /\ Succeeded(3)
    /\ Len(stmts[2].rows) = 2
    /\ \E k \in 1..2 : /\ stmts[2].rows[k].total_invoiced = 130
                       /\ stmts[2].rows[k].total_paid = 100
    /\ Count(Text, "  Outstanding: USD 30.0\n") = 1
    /\ Count(Text, "  Outstanding: EUR 50.0\n") = 1

Min(a, b) == IF a <= b THEN a ELSE b

\* C10: two calls of one operation that supply the same filters (and lists
\* of the same length) pass character-identical statement texts to the
\* database, whatever the values.
C10_SameFiltersSameSql ==
    (/\ pc = "done"
     /\ prev.name = name
     /\ prev.supplied = Supplied(arguments)
     /\ prev.lengths = ListLengths(name, arguments))
    => \A k \in 1..Min(Len(prev.sql), Len(stmts)) : prev.sql[k] = stmts[k].sql


\* C11: repeating an operation with identical arguments against an unchanged
\* store yields the identical response.  When the call before had the same
\* name and arguments and both calls ran all their statements without a
\* failure, the response of the second call equals the response of the first,
\* whatever order the database returns the rows in.
C11_Repeatable ==
    ( /\ pc = "done"
      /\ "outcome" \in DOMAIN prev
      /\ prev.name = name
      /\ prev.arguments = arguments
      /\ prev.clean
      /\ \A k \in 1..Len(stmts) : stmts[k].executed /\ stmts[k].error = "" )
    => outcome = prev.outcome

\* The statement texts the current call passed to query_db, in order, and
\* whether its k-th query_db call ended in a failure.
IssuedSql == [k \in 1..Len(stmts) |-> stmts[k].sql]
Failed(k) == ~stmts[k].executed \/ stmts[k].error # ""
SummaryStatements == <<vendor_query, invoice_query, po_query>>

\* The texts a handler answers with before it reaches the database.
LocalTexts ==
    {"No invoice numbers provided.", "No purchase order numbers provided.",
     "Vendor ID is required."}

\* C12 as stated: every invocation of the four single-statement operations
\* issues exactly one statement, and every invocation of get_vendor_summary
\* exactly three, in the order vendor identity, invoice aggregate, PO
\* aggregate (read for the invocations in which no statement failed).
C12_ExactCounts ==
    ( /\ pc = "done"
      /\ invoked # <<>>
      /\ \A k \in 1..Len(stmts) : ~Failed(k) )
    => IF name = "get_vendor_summary"
       THEN IssuedSql = SummaryStatements
       ELSE Len(stmts) = 1

\* C12, amended: an invocation answered locally issues no statement.  Any
\* other invocation of lookup_vendor, lookup_invoice, lookup_purchase_order
\* and query_amounts makes exactly one query_db call.  get_vendor_summary
\* makes its query_db calls one after the other in the order vendor identity,
\* invoice aggregate, PO aggregate; it stops after a call that fails and after
\* the vendor-identity statement when that returns no row, and makes all
\* three otherwise.
C12_StatementCounts ==
    /\ (pc = "done" /\ invoked # <<>>) =>
          LET local == outcome.kind = "return" /\ Text \in LocalTexts
          IN  /\ local => Len(stmts) = 0
              /\ (~local /\ name # "get_vendor_summary") => Len(stmts) = 1
              /\ (~local /\ name = "get_vendor_summary") =>
                    /\ Len(stmts) \in 1..3
                    /\ IssuedSql = SubSeq(SummaryStatements, 1, Len(stmts))
                    /\ \A k \in 1..(Len(stmts) - 1) : ~Failed(k)
                    /\ Len(stmts) = IF Failed(1) \/ stmts[1].rows = <<>> THEN 1
                                    ELSE IF Failed(2) THEN 2 ELSE 3
    /\ pc = "summary_invoices" =>
          /\ IssuedSql = <<vendor_query>>
          /\ ~Failed(1)
          /\ stmts[1].rows # <<>>
    /\ pc = "summary_pos" =>
          /\ IssuedSql = <<vendor_query, invoice_query>>
          /\ ~Failed(1) /\ ~Failed(2)

\* A summary of a vendor without invoices still makes all three calls, and a
\* summary of an unknown vendor has made only the first.
C12_Witness ==
    /\ pc = "done"
    /\ name = "get_vendor_summary"
    /\ IssuedSql = SummaryStatements
    /\ \A k \in 1..3 : ~Failed(k)
    /\ stmts[2].rows = <<>>
    /\ StartsWith(Text, "Vendor Summary for: ")

\* C13: an invocation that reaches the database opens exactly one connection
\* and runs all of its statements on it.  Once a statement of the current
\* call has run, the call has opened one connection and every statement it
\* ran was run on that connection.
C13_OneConnection ==
    (\E k \in 1..Len(stmts) : stmts[k].executed)
    => /\ conns = 1
       /\ \A k \in 1..Len(stmts) : stmts[k].executed => stmts[k].conn = 1

\* The rows of the k-th statement of the current call are rows the store in
\* its present state returns for that statement and those parameters.
FromPresentStore(k) ==
    LET e == Execute(stmts[k].sql, stmts[k].params, db)
    IN  e.error = "" /\ stmts[k].rows \in e.results

\* C14: the three statements of get_vendor_summary are not atomic with
\* respect to the store.  A summary whose three statements all succeeded is a
\* normal summary rendered from the three results as they were returned, each
\* by the store of its own moment: the vendor found by the first statement is
\* never looked up again, so the response is neither "Vendor not found." nor
\* an error even when the store has changed since, and the PO aggregate is the
\* one of the store as it is when the call returns.  The response of every
\* other operation is rendered from the rows of one statement, which are rows
\* of the store as it is when the call returns.
C14_NotAtomic ==
    /\ ( /\ pc = "done"
         /\ name = "get_vendor_summary"
         /\ Len(stmts) = 3
         /\ Succeeded(3) )
       => /\ stmts[1].rows # <<>>
          /\ outcome = Return(get_vendor_summary_format(
                           stmts[1].rows[1], stmts[2].rows, stmts[3].rows))
          /\ Text # "Vendor not found."
          /\ ~StartsWith(Text, "Error: ")
          /\ FromPresentStore(3)
    /\ ( /\ pc = "done"
         /\ name \in ToolNames \ {"get_vendor_summary"}
         /\ Len(stmts) = 1
         /\ Succeeded(1) )
       => /\ FromPresentStore(1)
          /\ outcome = Return(Render(name, stmts[1].rows))

\* A summary that names a vendor the store no longer holds and lists invoice
\* totals the store no longer holds either: the vendor and its invoices were
\* deleted between the invoice aggregate and the PO aggregate.
C14_Witness ==
    /\ pc = "done"
    /\ name = "get_vendor_summary"
    /\ Len(stmts) = 3
    /\ Succeeded(3)
    /\ \A v \in db.suppliers : v.supplier_id # Args.vendor_id
    /\ ~FromPresentStore(1)
    /\ ~FromPresentStore(2)
    /\ stmts[2].rows # <<>>
    /\ StartsWith(Text, "Vendor Summary for: Acme Corp\n")
    /\ Count(Text, "  Total Invoices: ") >= 1
    /\ Count(Text, "  No purchase orders found.\n") = 1

\* The record of a returned row with the "Paid" and "Balance Due" lines as
\* they are meant: the row's own amount_paid and balance_due when present,
\* 0 and the row's total_amount when absent.
MeantAmountRecord(inv) ==
    "Invoice: " \o inv.invoice_number \o "\n"
    \o "Supplier: " \o inv.supplier_name \o "\n"
    \o "Date: " \o DateStr(inv.invoice_date) \o "\n"
    \o "Total: " \o inv.currency_code \o " " \o ToString(inv.total_amount) \o "\n"
    \o "Paid: " \o inv.currency_code \o " "
       \o ToString(IF inv.amount_paid.null THEN 0 ELSE inv.amount_paid.v) \o "\n"
    \o "Balance Due: " \o inv.currency_code \o " "
       \o ToString(IF inv.balance_due.null THEN inv.total_amount ELSE inv.balance_due.v)
       \o "\n"

\* C15: in the output of query_amounts every returned row whose balance_due
\* is present shows exactly that value on its "Balance Due" line, a balance of
\* zero included; total_amount stands in only when balance_due is absent, and
\* the "Paid" line shows 0 only when amount_paid is absent or zero.
C15_BalanceShown ==
    ( /\ pc = "done"
      /\ name = "query_amounts"
      /\ Len(stmts) = 1
      /\ Succeeded(1) )
    => \A k \in 1..Len(stmts[1].rows) :
          Count(Text, MeantAmountRecord(stmts[1].rows[k])) = 1
====
